---------------------------- MODULE Spec2Model ----------------------------
(***************************************************************************)
(* smart-prostuti/server, src/index.js: one Express process with a single  *)
(* route, POST /api/analyze-answers, registered twice.  A request body is  *)
(* validated, rendered into a prompt, sent to the generative model, and    *)
(* the model's text is parsed into the analysis that is sent back.         *)
(*                                                                         *)
(* Texts are sequences of lexical tokens.  JS values (request bodies,      *)
(* parsed JSON) are tagged records.  Bengali string literals of the source *)
(* are stood for by ASCII names.                                           *)
(***************************************************************************)
EXTENDS Integers, Sequences, FiniteSets, TLC

(***************************************************************************)
(* Bounds of the model.                                                    *)
(***************************************************************************)
\* requests the process is sent, one after the other
MaxRequests == 2
\* longest wrongAnswers list of a request body
MaxWrong == 2
\* every token sequence up to this length over ShortAlphabet is a model text
MaxLen == 2

(***************************************************************************)
(* JS values.                                                              *)
(***************************************************************************)
Undef == [t |-> "undefined"]
JNull == [t |-> "null"]
JBool(b) == [t |-> "bool", b |-> b]
JNum(n) == [t |-> "num", n |-> n]
JStr(s) == [t |-> "str", s |-> s]
JArr(a) == [t |-> "arr", a |-> a]
JObj(o) == [t |-> "obj", o |-> o]
EmptyObj == JObj([k \in {} |-> Undef])

\* obj.key of a JS object value: undefined when the key is absent
Get(v, key) ==
    IF key \in DOMAIN v.o THEN v.o[key] ELSE Undef

\* !v
Falsy(v) ==
    \/ v.t \in {"undefined", "null"}
    \/ v.t = "bool" /\ ~v.b
    \/ v.t = "num" /\ v.n = 0
    \/ v.t = "str" /\ v.s = ""

(***************************************************************************)
(* Texts: sequences of tokens [k, v], both fields strings.                 *)
(***************************************************************************)
Tok(k, v) == [k |-> k, v |-> v]
LBrace == Tok("p", "{")
RBrace == Tok("p", "}")
LBrack == Tok("p", "[")
RBrack == Tok("p", "]")
Comma == Tok("p", ",")
Colon == Tok("p", ":")
\* a run of white space (blank, line break)
WS == Tok("ws", " ")
\* three backticks
Fence == Tok("fence", "fence")
\* the bare word json, in either case
TagLower == Tok("tag", "json")
TagUpper == Tok("tag", "JSON")
\* a JSON string literal, a JSON number, one of null / true / false
StrTok(s) == Tok("str", s)
NumTok(d) == Tok("num", d)
LitTok(w) == Tok("lit", w)
\* a word of prose
Word(w) == Tok("word", w)

\* the numerals the model texts use
NumOf(d) ==
    CASE d = "0" -> 0
      [] d = "5" -> 5

RECURSIVE DropLeadingWs(_)
DropLeadingWs(s) ==
    IF s # <<>> /\ Head(s) = WS THEN DropLeadingWs(Tail(s)) ELSE s

RECURSIVE DropTrailingWs(_)
DropTrailingWs(s) ==
    IF s # <<>> /\ s[Len(s)] = WS THEN DropTrailingWs(SubSeq(s, 1, Len(s) - 1)) ELSE s

\* String.prototype.trim
Trim(s) == DropTrailingWs(DropLeadingWs(s))

\* String.prototype.indexOf / lastIndexOf of one token, 0 when absent
\* (positions are 1-based here, so 0 stands for the source's -1)
IndexOf(s, tok) ==
    IF \E i \in 1..Len(s) : s[i] = tok
    THEN CHOOSE i \in 1..Len(s) : s[i] = tok /\ \A j \in 1..(i - 1) : s[j] # tok
    ELSE 0

LastIndexOf(s, tok) ==
    IF \E i \in 1..Len(s) : s[i] = tok
    THEN CHOOSE i \in 1..Len(s) : s[i] = tok /\ \A j \in (i + 1)..Len(s) : s[j] # tok
    ELSE 0

(***************************************************************************)
(* JSON.parse, as a recursive-descent parser of the strict grammar: white  *)
(* space may separate tokens, a trailing comma is an error, and the whole  *)
(* input must be one value.                                                *)
(***************************************************************************)
ParseFail == [ok |-> FALSE]
ParseOk(v, next) == [ok |-> TRUE, val |-> v, next |-> next]

RECURSIVE ParseValue(_, _)
RECURSIVE ParseMembers(_, _, _)
RECURSIVE ParseElements(_, _, _)

ParseValue(s, i) ==
    IF i > Len(s) THEN ParseFail
    ELSE CASE s[i].k = "str" -> ParseOk(JStr(s[i].v), i + 1)
           [] s[i].k = "num" -> ParseOk(JNum(NumOf(s[i].v)), i + 1)
           [] s[i].k = "lit" ->
                ParseOk(CASE s[i].v = "null" -> JNull
                          [] s[i].v = "true" -> JBool(TRUE)
                          [] OTHER -> JBool(FALSE), i + 1)
           [] s[i] = LBrace ->
                IF i + 1 <= Len(s) /\ s[i + 1] = RBrace
                THEN ParseOk(EmptyObj, i + 2)
                ELSE ParseMembers(s, i + 1, EmptyObj.o)
           [] s[i] = LBrack ->
                IF i + 1 <= Len(s) /\ s[i + 1] = RBrack
                THEN ParseOk(JArr(<<>>), i + 2)
                ELSE ParseElements(s, i + 1, <<>>)
           [] OTHER -> ParseFail

\* "key" : value, then a comma and another member, or the closing brace;
\* a repeated key keeps its last value
ParseMembers(s, i, acc) ==
    IF i + 1 > Len(s) \/ s[i].k # "str" \/ s[i + 1] # Colon THEN ParseFail
    ELSE LET r == ParseValue(s, i + 2) IN
         IF ~r.ok \/ r.next > Len(s) THEN ParseFail
         ELSE LET acc2 == [key \in DOMAIN acc \cup {s[i].v} |->
                              IF key = s[i].v THEN r.val ELSE acc[key]]
              IN  CASE s[r.next] = RBrace -> ParseOk(JObj(acc2), r.next + 1)
                    [] s[r.next] = Comma -> ParseMembers(s, r.next + 1, acc2)
                    [] OTHER -> ParseFail

ParseElements(s, i, acc) ==
    LET r == ParseValue(s, i) IN
    IF ~r.ok \/ r.next > Len(s) THEN ParseFail
    ELSE CASE s[r.next] = RBrack -> ParseOk(JArr(Append(acc, r.val)), r.next + 1)
           [] s[r.next] = Comma -> ParseElements(s, r.next + 1, Append(acc, r.val))
           [] OTHER -> ParseFail

SyntaxErrorMsg == "Unexpected token in JSON"

\* JSON.parse(text): the value, or a thrown SyntaxError
JSONparse(text) ==
    LET s == SelectSeq(text, LAMBDA tok : tok # WS)
        r == ParseValue(s, 1)
    IN  IF r.ok /\ r.next = Len(s) + 1
        THEN [ok |-> TRUE, val |-> r.val]
        ELSE [ok |-> FALSE, err |-> SyntaxErrorMsg]

(***************************************************************************)
(* parseModelJson of the second registration.                              *)
(***************************************************************************)
NotValidJsonMsg == "Model output was not valid JSON"

\* text.match(/```(?:json)?\s*([\s\S]*?)```/i): the match starts at the first
\* fence that has a later fence; the group is what lies between the optional
\* tag plus white space and the next fence
FenceMatch(text) ==
    LET fences == {i \in 1..Len(text) : text[i] = Fence} IN
    IF Cardinality(fences) < 2 THEN [matched |-> FALSE]
    ELSE LET open == CHOOSE i \in fences : \A j \in fences : i <= j
             close == CHOOSE i \in fences \ {open} : \A j \in fences \ {open} : i <= j
             afterTag == IF text[open + 1].k = "tag" THEN open + 2 ELSE open + 1
             from == CHOOSE i \in afterTag..close :
                        /\ text[i] # WS
                        /\ \A j \in afterTag..(i - 1) : text[j] = WS
         IN  [matched |-> TRUE, group |-> SubSeq(text, from, close - 1)]

parseModelJson(text) ==
    LET direct == JSONparse(text) IN
    IF direct.ok THEN direct
    ELSE LET fenced == FenceMatch(text)
             raw == IF fenced.matched THEN fenced.group ELSE text
             start == IndexOf(raw, LBrace)
             end == LastIndexOf(raw, RBrace)
         IN  IF start # 0 /\ end # 0 /\ end > start
             THEN JSONparse(SubSeq(raw, start, end))
             ELSE [ok |-> FALSE, err |-> NotValidJsonMsg]

(***************************************************************************)
(* The "minimal schema hardening" of the second registration.  The file is *)
(* a CommonJS script without "use strict": a property write on a number, a *)
(* string or a boolean is dropped, a property read of null throws.  An     *)
(* array takes the four properties, but res.json serialises its elements   *)
(* only, so the value that is sent is the array itself.                    *)
(***************************************************************************)
AnalysisKeys == {"summary", "weaknesses", "suggestions", "encouragement"}
NullReadMsg == "Cannot read properties of null"

\* x ??= ""
NullishToEmpty(x) ==
    IF x.t \in {"undefined", "null"} THEN JStr("") ELSE x

\* Array.isArray(x) ? x : []
ArrayOrEmpty(x) ==
    IF x.t = "arr" THEN x ELSE JArr(<<>>)

SchemaHardening(analysis) ==
    CASE analysis.t = "null" -> [ok |-> FALSE, err |-> NullReadMsg]
      [] analysis.t = "obj" ->
            [ok |-> TRUE,
             val |-> JObj([key \in DOMAIN analysis.o \cup AnalysisKeys |->
                        CASE key \in {"summary", "encouragement"} ->
                                NullishToEmpty(Get(analysis, key))
                          [] key \in {"weaknesses", "suggestions"} ->
                                ArrayOrEmpty(Get(analysis, key))
                          [] OTHER -> analysis.o[key]])]
      [] OTHER -> [ok |-> TRUE, val |-> analysis]

(***************************************************************************)
(* The prompt.  A rendered prompt is the record of the values the template *)
(* interpolates; template says which of the two literal templates it is.   *)
(***************************************************************************)
DidNotAnswer == "did not answer"
NoExplanation == "no explanation"

\* item.options[index].text: throws a TypeError when options is not there or
\* the index names no element
OptionText(options, index) ==
    IF /\ options.t = "arr"
       /\ index.t = "num"
       /\ index.n >= 0
       /\ index.n < Len(options.a)
       /\ options.a[index.n + 1].t = "obj"
    THEN [threw |-> FALSE, val |-> Get(options.a[index.n + 1], "text")]
    ELSE [threw |-> TRUE]

\* the callback of wrongAnswers.map
RenderItem(item, index) ==
    LET yours == IF Get(item, "selectedIndex").t # "null"
                 THEN OptionText(Get(item, "options"), Get(item, "selectedIndex"))
                 ELSE [threw |-> FALSE, val |-> JStr(DidNotAnswer)]
        correct == OptionText(Get(item, "options"), Get(item, "correctIndex"))
    IN  IF yours.threw \/ correct.threw THEN [threw |-> TRUE]
        ELSE [threw |-> FALSE,
              block |-> [n |-> index + 1,
                         question |-> Get(item, "questionText"),
                         yours |-> yours.val,
                         correct |-> correct.val,
                         explanation |->
                            IF Falsy(Get(item, "explanation"))
                            THEN JStr(NoExplanation)
                            ELSE Get(item, "explanation")]]

\* wrongAnswers.map(...).join(...) and the template literal around it;
\* wrongAnswers.map throws when wrongAnswers is undefined or null
BuildPrompt(template, body, wrongAnswers) ==
    IF wrongAnswers.t # "arr" THEN [threw |-> TRUE]
    ELSE LET n == Len(wrongAnswers.a)
             items == [i \in 1..n |-> RenderItem(wrongAnswers.a[i], i - 1)]
         IN  IF \E i \in 1..n : items[i].threw THEN [threw |-> TRUE]
             ELSE [threw |-> FALSE,
                   prompt |-> [template |-> template,
                               subject |-> body.subject,
                               chapter |-> body.chapter,
                               totalQuestions |-> body.totalQuestions,
                               answeredQuestions |-> body.answeredQuestions,
                               wrongCount |-> n,
                               allCorrect |-> ~(n > 0),
                               blocks |-> IF n > 0
                                          THEN [i \in 1..n |-> items[i].block]
                                          ELSE <<>>]]

\* first registration: wrongAnswers is destructured without a default
Prompt1(body) == BuildPrompt("first", body, body.wrongAnswers)

\* second registration: wrongAnswers = [] when the field is undefined
Prompt2(body) ==
    BuildPrompt("second", body,
                IF body.wrongAnswers.t = "undefined" THEN JArr(<<>>)
                ELSE body.wrongAnswers)

(***************************************************************************)
(* What a handler does is the sequence of its outward events.              *)
(***************************************************************************)
CallEv(prompt, jsonHint) == [kind |-> "call", prompt |-> prompt, jsonHint |-> jsonHint]
LogEv(label, data) == [kind |-> "log", label |-> label, data |-> data]
RespondEv(status, payload) == [kind |-> "respond", status |-> status, payload |-> payload]

RequiredMsg == "Subject, chapter, total questions, and answered questions are required."
ErrorPrefix == "analysis failed: "
ApiErrorLabel == "Error calling Gemini API for analysis:"
ParseFailedLabel == "Parse failed. Raw model output:"

\* the validation with its last disjunct left out
InvalidWithoutAnswered(body) ==
    \/ Falsy(body.subject)
    \/ Falsy(body.chapter)
    \/ body.totalQuestions.t = "undefined"

\* !subject || !chapter || totalQuestions === undefined || answeredQuestions === undefined
Invalid(body) ==
    \/ Falsy(body.subject)
    \/ Falsy(body.chapter)
    \/ body.totalQuestions.t = "undefined"
    \/ body.answeredQuestions.t = "undefined"

BadRequest == RespondEv(400, [error |-> RequiredMsg])
ServerError(msg) == RespondEv(500, [error |-> <<ErrorPrefix, msg>>])
Success(analysis) == RespondEv(200, [analysis |-> analysis])

\* the catch block answering with a fixed text instead of error.message
Handler1CatchFixedText(msg) ==
    <<LogEv(ApiErrorLabel, [message |-> msg]), ServerError("internal error")>>

\* first registration, the catch block
Handler1Catch(msg) ==
    <<LogEv(ApiErrorLabel, [message |-> msg]), ServerError(msg)>>

\* first registration, from entry to the await of generateContent
Handler1Sync(body) ==
    IF Invalid(body) THEN [next |-> "end", events |-> <<BadRequest>>]
    ELSE LET p == Prompt1(body) IN
         IF p.threw THEN [next |-> "throw", events |-> <<>>]
         ELSE [next |-> "await", events |-> <<CallEv(p.prompt, FALSE)>>]

\* first registration, after generateContent resolved with text
Handler1Resolved(text) ==
    LET parsed == JSONparse(Trim(text)) IN
    IF parsed.ok THEN <<Success(parsed.val)>> ELSE Handler1Catch(parsed.err)

\* second registration, the catch block
Handler2Catch(msg) ==
    <<LogEv(ApiErrorLabel, [message |-> msg]), ServerError(msg)>>

\* second registration, from entry to the await of generateContent
Handler2Sync(body) ==
    IF Invalid(body) THEN [next |-> "end", events |-> <<BadRequest>>]
    ELSE LET p == Prompt2(body) IN
         IF p.threw THEN [next |-> "throw", events |-> <<>>]
         ELSE [next |-> "await", events |-> <<CallEv(p.prompt, TRUE)>>]

\* second registration, after generateContent resolved with text
Handler2Resolved(text) ==
    LET parsed == parseModelJson(Trim(text)) IN
    IF ~parsed.ok
    THEN <<LogEv(ParseFailedLabel, [text |-> text])>> \o Handler2Catch(parsed.err)
    ELSE LET hard == SchemaHardening(parsed.val) IN
         IF hard.ok THEN <<Success(hard.val)>> ELSE Handler2Catch(hard.err)

(***************************************************************************)
(* Inputs: request bodies as express.json() hands them over, the texts the *)
(* model answers with, the messages its failures carry.                    *)
(***************************************************************************)
Option(s) == JObj([text |-> JStr(s)])
TwoOptions == JArr(<<Option("A"), Option("B")>>)

Item(question, options, selected, correct, explanation) ==
    JObj([questionText |-> question, options |-> options,
          selectedIndex |-> selected, correctIndex |-> correct,
          explanation |-> explanation])

Items ==
    { Item(JStr("Q"), TwoOptions, JNum(0), JNum(1), JStr("because")),
      Item(Undef, TwoOptions, JNull, JNum(1), Undef),
      Item(JStr("Q"), TwoOptions, Undef, JNum(1), JStr("because")),
      Item(JStr("Q"), TwoOptions, JNum(5), JNum(1), JStr("because")),
      Item(JStr("Q"), TwoOptions, JNum(0), JNum(5), JStr("because")),
      Item(JStr("Q"), Undef, JNull, JNum(1), JStr("because")) }

WrongAnswerLists ==
    {Undef, JNull} \cup
    {JArr(a) : a \in UNION {[1..n -> Items] : n \in 0..MaxWrong}}

Bodies ==
    [subject : {Undef, JStr(""), JStr("Math")},
     chapter : {Undef, JStr("Algebra")},
     totalQuestions : {Undef, JNum(0)},
     answeredQuestions : {Undef, JNum(5)},
     wrongAnswers : WrongAnswerLists]

Member(key, value) == <<StrTok(key), Colon>> \o value
EmptyArrayText == <<LBrack, RBrack>>
FullMembers ==
    Member("summary", <<StrTok("ok")>>) \o <<Comma>>
    \o Member("weaknesses", EmptyArrayText) \o <<Comma>>
    \o Member("suggestions", <<LBrack, StrTok("revise"), RBrack>>) \o <<Comma>>
    \o Member("encouragement", <<StrTok("keep going")>>)

\* what may stand where the JSON object is expected
Interiors ==
    { <<LBrace>> \o FullMembers \o <<RBrace>>,
      <<LBrace>> \o FullMembers \o <<Comma, RBrace>>,
      <<LBrace>> \o Member("summary", <<StrTok("ok")>>) \o <<RBrace>>,
      <<LBrace>> \o Member("summary", <<NumTok("5")>>) \o <<Comma>>
          \o Member("encouragement", EmptyArrayText) \o <<RBrace>>,
      <<LBrace>> \o Member("summary", <<LitTok("null")>>) \o <<Comma>>
          \o Member("weaknesses", <<StrTok("none")>>) \o <<RBrace>>,
      <<LBrace>> \o Member("weaknesses", <<LBrack, StrTok("a"), Comma, RBrack>>)
          \o <<RBrace>>,
      <<LBrace, StrTok("summary"), StrTok("ok"), RBrace>>,
      <<LBrace, RBrace>>,
      <<NumTok("5")>>,
      <<LitTok("null")>>,
      <<LitTok("true")>>,
      <<StrTok("ok")>>,
      EmptyArrayText,
      <<LBrack, StrTok("a"), RBrack>> }

Wrappings(x) ==
    { x,
      <<WS>> \o x \o <<WS>>,
      <<Fence>> \o x \o <<Fence>>,
      <<Fence, TagLower, WS>> \o x \o <<WS, Fence>>,
      <<Fence, TagUpper, WS>> \o x \o <<WS, Fence>>,
      <<Fence, TagLower, WS>> \o x,
      <<Word("Here"), WS>> \o x \o <<WS, Word("thanks")>>,
      <<Word("Here"), WS, Fence, TagLower, WS>> \o x \o <<Fence, WS, Word("thanks")>>,
      <<LBrace, Word("note"), RBrace, WS>> \o x }

ShortAlphabet == {LBrace, RBrace, Fence, WS, NumTok("5"), Word("sorry")}

ModelTexts ==
    UNION {Wrappings(x) : x \in Interiors}
    \cup UNION {[1..n -> ShortAlphabet] : n \in 0..MaxLen}
    \cup {<<RBrace, WS, LBrace>>}

ModelErrors == {"fetch failed", "quota exceeded"}

\* The rejected promise of an async handler: Express 4 drops it (an unhandled
\* rejection, which ends the Node process), Express 5 passes it to next(err).
\* The repository pins neither.
ExpressVersions == {"express4", "express5"}
DefaultErrorPage == RespondEv(500, [page |-> "Internal Server Error"])

(***************************************************************************)
(* The process.  Requests are taken one at a time: the handlers share no   *)
(* mutable state, and the only effect of one request on another is the end *)
(* of the process.                                                         *)
(***************************************************************************)
VARIABLES
    express,    \* the Express major version installed
    alive,      \* the process runs
    served,     \* requests received so far
    pc,         \* where the current request is
    layer,      \* the registration that handles the current request
    body,       \* req.body of the current request
    reply,      \* how the current request's generateContent ended
    events      \* the current request's model calls, log lines and responses

vars == <<express, alive, served, pc, layer, body, reply, events>>

NoBody == [subject |-> Undef, chapter |-> Undef, totalQuestions |-> Undef,
           answeredQuestions |-> Undef, wrongAnswers |-> Undef]
NoReply == [kind |-> "none"]

\* the registrations of POST /api/analyze-answers, in the order of app.post
Routes == <<"first", "second">>

\* Express runs the first matching layer; a later one runs only when the
\* handler before it calls next(), and neither handler does
RouteMatch == Routes[1]

Init ==
    /\ express \in ExpressVersions
    /\ alive = TRUE
    /\ served = 0
    /\ pc = "idle"
    /\ layer = "none"
    /\ body = NoBody
    /\ reply = NoReply
    /\ events = <<>>

HandlerSync(h, b) ==
    IF h = "first" THEN Handler1Sync(b) ELSE Handler2Sync(b)

HandlerResolved(h, text) ==
    IF h = "first" THEN Handler1Resolved(text) ELSE Handler2Resolved(text)

HandlerCatch(h, msg) ==
    IF h = "first" THEN Handler1Catch(msg) ELSE Handler2Catch(msg)

\* a request arrives and handler h runs up to its first await, its early
\* return, or a throw outside its try block
ReceiveAt(h, b) ==
    /\ alive
    /\ pc = "idle"
    /\ served < MaxRequests
    /\ LET r == HandlerSync(h, b) IN
        /\ events' = r.events
        /\ pc' = CASE r.next = "end" -> "done"
                   [] r.next = "throw" -> "rejected"
                   [] r.next = "await" -> "awaiting"
    /\ served' = served + 1
    /\ layer' = h
    /\ body' = b
    /\ reply' = NoReply
    /\ UNCHANGED <<express, alive>>

Receive == \E b \in Bodies : ReceiveAt(RouteMatch, b)

\* generateContent resolves; the handler runs to its response
ModelResolves ==
    /\ pc = "awaiting"
    /\ \E text \in ModelTexts :
        /\ reply' = [kind |-> "text", text |-> text]
        /\ events' = events \o HandlerResolved(layer, text)
    /\ pc' = "done"
    /\ UNCHANGED <<express, alive, served, layer, body>>

\* generateContent rejects; the catch block runs
ModelRejects ==
    /\ pc = "awaiting"
    /\ \E msg \in ModelErrors :
        /\ reply' = [kind |-> "error", msg |-> msg]
        /\ events' = events \o HandlerCatch(layer, msg)
    /\ pc' = "done"
    /\ UNCHANGED <<express, alive, served, layer, body>>

\* Express 4: nothing awaits the handler's promise; the rejection is
\* unhandled, Node ends the process, the request is never answered
UnhandledRejection ==
    /\ pc = "rejected"
    /\ express = "express4"
    /\ pc' = "unanswered"
    /\ alive' = FALSE
    /\ UNCHANGED <<express, served, layer, body, reply, events>>

\* Express 5: the rejection goes to next(err) and the default error handler
DefaultErrorHandler ==
    /\ pc = "rejected"
    /\ express = "express5"
    /\ events' = Append(events, DefaultErrorPage)
    /\ pc' = "done"
    /\ UNCHANGED <<express, alive, served, layer, body, reply>>

\* the response is out: the request and everything local to it is dropped
Release ==
    /\ pc = "done"
    /\ pc' = "idle"
    /\ layer' = "none"
    /\ body' = NoBody
    /\ reply' = NoReply
    /\ events' = <<>>
    /\ UNCHANGED <<express, alive, served>>

Next ==
    \/ Receive
    \/ Release
    \/ ModelResolves
    \/ ModelRejects
    \/ UnhandledRejection
    \/ DefaultErrorHandler

Spec == Init /\ [][Next]_vars

(***************************************************************************)
(* The second registration on its own: the same process with the first     *)
(* app.post removed, so that Express dispatches to the second handler.     *)
(* The program as written never runs it (RouteMatch); this specification   *)
(* says what it would do, and no state of it is a state of Spec after the  *)
(* first request.                                                          *)
(***************************************************************************)
ReceiveSecond == \E b \in Bodies : ReceiveAt(Routes[2], b)

NextSecond ==
    \/ ReceiveSecond
    \/ Release
    \/ ModelResolves
    \/ ModelRejects
    \/ UnhandledRejection
    \/ DefaultErrorHandler

SpecSecond == Init /\ [][NextSecond]_vars

(***************************************************************************)
(* Properties.                                                             *)
(***************************************************************************)
Responses == SelectSeq(events, LAMBDA e : e.kind = "respond")
Calls == SelectSeq(events, LAMBDA e : e.kind = "call")
Succeeded == Responses # <<>> /\ Responses[1].status = 200
InFlight == pc # "idle"

\* one of the four required fields is not in the body
MissingRequired(b) ==
    \E f \in {"subject", "chapter", "totalQuestions", "answeredQuestions"} :
        b[f].t = "undefined"

\* an AnalysisResult: all four fields, each of its kind
WellShaped(v) ==
    /\ v.t = "obj"
    /\ AnalysisKeys \subseteq DOMAIN v.o
    /\ v.o["summary"].t = "str"
    /\ v.o["weaknesses"].t = "arr"
    /\ v.o["suggestions"].t = "arr"
    /\ v.o["encouragement"].t = "str"

AllDefaults ==
    JObj([summary |-> JStr(""), weaknesses |-> JArr(<<>>),
          suggestions |-> JArr(<<>>), encouragement |-> JStr("")])

\* C1: every success response carries an analysis with summary and
\* encouragement strings and weaknesses and suggestions arrays, whatever the
\* model text parsed to.
C1_AnalysisAlwaysShaped ==
    \A i \in 1..Len(Responses) :
        Responses[i].status = 200 => WellShaped(Responses[i].payload.analysis)

C3_SuccessOnlyThroughHintAndNormalizer ==
    Succeeded =>
        /\ events[1].kind = "call"
        /\ events[1].jsonHint
        /\ reply.kind = "text"
        /\ LET parsed == parseModelJson(Trim(reply.text)) IN
            /\ parsed.ok
            /\ SchemaHardening(parsed.val).ok
            /\ Responses[1].payload.analysis = SchemaHardening(parsed.val).val

\* C4: a request gets exactly one response: never two, and one once its
\* handler is through; no rejection goes unhandled and ends the process.
C4_ExactlyOneResponseNoCrash ==
    /\ alive
    /\ Len(Responses) <= 1
    /\ pc \in {"done", "unanswered"} => Len(Responses) = 1

\* C5: for a request that passes validation and whose wrongAnswers is a list,
\* rendering the prompt does not throw, whatever the items: the model call is
\* reached.
C5_PromptRenderNeverThrows ==
    (InFlight /\ ~Invalid(body) /\ body.wrongAnswers.t = "arr") =>
        /\ pc \notin {"rejected", "unanswered"}
        /\ events # <<>>
        /\ events[1].kind = "call"

\* C6: a request with the four required fields and no wrongAnswers field is
\* handled as one with an empty list: the model is called with the prompt that
\* says everything was answered correctly and has no question block.
C6_AbsentWrongAnswersIsEmptyList ==
    (InFlight /\ ~Invalid(body) /\ body.wrongAnswers.t = "undefined") =>
        /\ events # <<>>
        /\ events[1].kind = "call"
        /\ events[1].prompt.allCorrect
        /\ events[1].prompt.blocks = <<>>

\* a JSON object in fences, with the json tag in either case or without one
Fenced(x) ==
    { <<Fence>> \o x \o <<Fence>>,
      <<Fence, TagLower, WS>> \o x \o <<WS, Fence>>,
      <<Fence, TagUpper, WS>> \o x \o <<WS, Fence>> }

ObjectInteriors ==
    {x \in Interiors : JSONparse(x).ok /\ JSONparse(x).val.t = "obj"}

\* an object text with one comma put before its closing brace
TrailingCommaOf(x) ==
    SubSeq(x, 1, Len(x) - 1) \o <<Comma, RBrace>>

\* C7: when the model text is a JSON object in fences, valid or valid but for
\* one trailing comma, the request succeeds with that object.
C7_FencedJsonSucceeds ==
    \A x \in ObjectInteriors :
        (reply.kind = "text" /\
         reply.text \in Fenced(x) \cup Fenced(TrailingCommaOf(x))) =>
            /\ Succeeded
            /\ Responses[1].payload.analysis.t = "obj"
            /\ \A key \in DOMAIN JSONparse(x).val.o \ AnalysisKeys :
                    Get(Responses[1].payload.analysis, key) = JSONparse(x).val.o[key]

\* no opening brace, no closing brace, or the last closing brace not after the
\* first opening one
NoBracePair(text) ==
    \/ IndexOf(text, LBrace) = 0
    \/ LastIndexOf(text, RBrace) = 0
    \/ LastIndexOf(text, RBrace) < IndexOf(text, LBrace)

\* C8: a model text without a brace pair that is not JSON ends in a 500 whose
\* message embeds the parse failure, the raw text is logged before that
\* response, and no analysis is sent.
C8_NoBraceTextFailsLogged ==
    (reply.kind = "text" /\ NoBracePair(reply.text)
     /\ ~JSONparse(Trim(reply.text)).ok) =>
        /\ Len(Responses) = 1
        /\ Responses[1].status = 500
        /\ \E msg \in {SyntaxErrorMsg, NotValidJsonMsg} :
                events[Len(events)] = ServerError(msg)
        /\ \E i \in 1..(Len(events) - 1) :
                /\ events[i].kind = "log"
                /\ events[i].data = [text |-> reply.text]

\* C9: a failed model call is answered 500 with the failure's message in the
\* error text, and a request never has more than one model call, also after a
\* failure or a parse error.
C9_ModelFailureIs500CalledOnce ==
    /\ Len(Calls) <= 1
    /\ reply.kind = "error" =>
        /\ Len(Calls) = 1
        /\ Responses = <<ServerError(reply.msg)>>
        /\ events[Len(events)] = ServerError(reply.msg)

C9_Witness ==
    /\ pc = "done"
    /\ reply = [kind |-> "error", msg |-> "quota exceeded"]
    /\ Len(Calls) = 1
    /\ Responses = <<ServerError("quota exceeded")>>

\* C10: when the model text parses as JSON to something that is not an object
\* (null, a number, a string, a boolean, an array), the request succeeds with
\* the all-defaults analysis.
C10_NonObjectBecomesDefaults ==
    (reply.kind = "text" /\ JSONparse(Trim(reply.text)).ok
     /\ JSONparse(Trim(reply.text)).val.t # "obj") =>
        Responses = <<Success(AllDefaults)>>

=============================================================================
